---- MODULE Spec2Model ----
(***************************************************************************)
(* WULPUS probe firmware (fw/nrf52/probe_fw): the capture-and-stream       *)
(* pipeline of main.c with the sequencer (wulpus_ppi.c), the SPI           *)
(* reception (wulpus_spi.c) and the BLE transport (wulpus_ble.c).          *)
(*                                                                         *)
(* Execution contexts.  The handlers (data ready, counter compare, BLE     *)
(* events) run in interrupt context; each is one atomic action, since the  *)
(* application interrupts share one priority and do not preempt each other.*)
(* The main loop (handle_pending_frames) is split at every point where an  *)
(* interrupt can be taken between two accesses to the shared indices.      *)
(* The hardware chain (timer -> SPI start, SPI end -> counter) runs on its *)
(* own: one Transfer step per block transfer.                              *)
(*                                                                         *)
(* Addresses are byte offsets from the start of rx_buffer.                 *)
(***************************************************************************)
EXTENDS Integers, Sequences, FiniteSets, TLC

\* ---------------------------------------------------------------- constants
\* wulpus_config.h
WULPUS_NUMBER_OF_XFERS == 4
WULPUS_BYTES_PER_XFER == 201
WULPUS_NUM_BUFFERED_FRAMES == 35

\* main.c: #define FRAME_SIZE
FRAME_SIZE == WULPUS_NUMBER_OF_XFERS * WULPUS_BYTES_PER_XFER

\* ------------------------------------------------------------------- bounds
MaxSequences == 2   \* capture sequences run to completion
MaxBusy == 1        \* consecutive Busy answers to one segment
DeepBusy == 3       \* the same, in the backpressure configuration
MaxLateXfers == 1   \* block transfers started after the compare event,
                    \* before its handler has stopped the timers
OverflowExtra == 1  \* completions beyond the ring capacity (overflow runs)

\* What one run is built and explored with: the ring capacity (frames) and how
\* far the environment goes (sequences completed, Busy answers in a row, late
\* transfers).  Small rings make the wrap-around happen within the bounds.
Configurations ==
    {[frames |-> WULPUS_NUM_BUFFERED_FRAMES, seqs |-> 1, busy |-> 0, late |-> 0],
     [frames |-> 2, seqs |-> MaxSequences, busy |-> MaxBusy, late |-> 0],
     [frames |-> 3, seqs |-> MaxSequences, busy |-> MaxBusy, late |-> 0],
     [frames |-> 3, seqs |-> 1, busy |-> DeepBusy, late |-> 0],
     [frames |-> 3, seqs |-> 2, busy |-> 0, late |-> MaxLateXfers]}

\* Capture only (no drain, no link event): the three-slot ring of the overflow
\* scenario and the reference ring, each filled past its capacity.
CaptureConfigurations ==
    {[frames |-> c, seqs |-> c + OverflowExtra, busy |-> 0, late |-> 0] :
        c \in {3, WULPUS_NUM_BUFFERED_FRAMES}}

\* ------------------------------------------------------------- value spaces
\* nrf_gpiote_polarity_t as seen by gpio_data_ready_handler
Polarities == {"LOTOHI", "HITOLO", "TOGGLE"}

\* Status codes of ble_nus_data_send that wp_ble_transmit tells apart.
NRF_SUCCESS == "NRF_SUCCESS"
NRF_ERROR_RESOURCES == "NRF_ERROR_RESOURCES"
NRF_ERROR_INVALID_STATE == "NRF_ERROR_INVALID_STATE"
NRF_ERROR_NOT_FOUND == "NRF_ERROR_NOT_FOUND"
NRF_ERROR_INVALID_PARAM == "NRF_ERROR_INVALID_PARAM"
StatusCodes ==
    {NRF_SUCCESS, NRF_ERROR_RESOURCES, NRF_ERROR_INVALID_STATE,
     NRF_ERROR_NOT_FOUND, NRF_ERROR_INVALID_PARAM}

\* Status of a registration into a full registry.
NRF_ERROR_CONN_COUNT == "NRF_ERROR_CONN_COUNT"

\* Sizes of the callback arrays (wulpus_config.h).
WULPUS_BLE_MAX_DATA_HANDLERS == 5
WULPUS_BLE_MAX_CONN_HANDLERS == 5
WULPUS_GPIO_MAX_DATA_HANDLERS == 5
WULPUS_PPI_MAX_END_HANDLERS == 5

\* Successful registrations explored, over the four registries together.
MaxRegistered == 6

\* Callbacks offered for registration, and the registries.
Callbacks == {"cb1", "cb2"}
Registries == {"gpio_data", "ppi_end", "ble_data", "ble_conn"}

BLE_CONN_HANDLE_INVALID == "invalid"
ConnHandles == {"conn0"}

\* Command payloads received over NUS, and the fixed restart packet.
Commands == {"cfgA", "cfgB"}
WULPUS_RESTART_PACKET == "restart"

VARIABLES
    num_frames,       \* ring capacity C of this build
    budget,           \* the configuration's bounds on the environment
    rx_buffer_head,   \* main.c
    rx_buffer_tail,   \* main.c
    tim_enabled,      \* tim_timeout and tim_counter enabled (always together)
    tim_counter,      \* value of the transfer counter (TIMER4)
    end_irq,          \* compare event of tim_counter raised, handler not yet run
    late_xfers,       \* transfers done since the compare event was raised
    rxd_ptr,          \* SPIM RXD.PTR
    spi_armed,        \* a held, repeated reception is set up in the SPIM
    mem,              \* rx_buffer: block index -> capture that wrote it last
    n_warn,           \* "RX Buffer overflow!" warnings logged
    n_end,            \* sequence completions: runs of ppi_end_handler
    cfg_log,          \* packets handed to wp_spi_send_config by the link event
                      \* handler that has just run (empty after any other step)
    link_evt,         \* the link event whose handler has just run, with the
                      \* indices and the sequencer as the handler found them
    aborted,          \* the sequence last started was stopped by a link event
                      \* handler before its compare event
    since_cmd,        \* a command has been handled and no sequence has
                      \* completed since
    m_conn_handle,    \* wulpus_ble.c
    pc,               \* position of the main loop
    reg,              \* main loop: a loaded index (check, tail update)
    seg,              \* main loop: segment being transmitted
    data,             \* wp_ble_transmit: argument data (offset in rx_buffer)
    length,           \* wp_ble_transmit: argument length
    calls,            \* ble_nus_data_send calls of this wp_ble_transmit
    sent,             \* segments sent with success by this handle_pending_frames
    drain_tail,       \* rx_buffer_tail when this handle_pending_frames entered its body
    wp_gpio_data_handlers,  \* wulpus_gpio.c: the registered callbacks, in order
    wp_ppi_end_handlers,    \* wulpus_ppi.c
    wp_ble_data_handlers,   \* wulpus_ble.c
    wp_ble_conn_handlers,   \* wulpus_ble.c
    reg_op            \* the registration or dispatch that has just run

\* what the main loop leaves alone, apart from rx_buffer_tail
periph_vars ==
    <<tim_enabled, tim_counter, end_irq, late_xfers, rxd_ptr, spi_armed, mem,
      n_warn, n_end, m_conn_handle, aborted, since_cmd>>

hw_vars ==
    <<rx_buffer_head, rx_buffer_tail, periph_vars, cfg_log>>

NoEvt ==
    [kind |-> "none", arg |-> "none", head |-> 0, tail |-> 0, tim |-> FALSE,
     cnt |-> 0, irq |-> FALSE]

LinkEvt(kind, arg) ==
    [kind |-> kind, arg |-> arg, head |-> rx_buffer_head,
     tail |-> rx_buffer_tail, tim |-> tim_enabled, cnt |-> tim_counter,
     irq |-> end_irq]

\* A step of the main loop is no link event.
NoLinkEvent ==
    /\ cfg_log' = <<>>
    /\ link_evt' = NoEvt

main_vars == <<pc, reg, seg, data, length, calls, sent, drain_tail>>

\* The callback registries: written by the registrations of main() only.
registry_vars ==
    <<wp_gpio_data_handlers, wp_ppi_end_handlers, wp_ble_data_handlers,
      wp_ble_conn_handlers, reg_op>>

config_vars == <<num_frames, budget, registry_vars>>

obs_vars == <<link_evt>>

vars == <<config_vars, hw_vars, main_vars, obs_vars>>

\* ------------------------------------------------- state shared by handlers
\* The handlers are written as functions of a record of the shared state, so
\* that the order of the calls inside one handler is kept.
State ==
    [head |-> rx_buffer_head, tail |-> rx_buffer_tail,
     tim |-> tim_enabled, cnt |-> tim_counter, irq |-> end_irq,
     late |-> late_xfers, ptr |-> rxd_ptr, spi |-> spi_armed, mem |-> mem,
     warn |-> n_warn, ends |-> n_end, cfg |-> cfg_log,
     conn |-> m_conn_handle]

Install(s) ==
    /\ rx_buffer_head' = s.head
    /\ rx_buffer_tail' = s.tail
    /\ tim_enabled' = s.tim
    /\ tim_counter' = s.cnt
    /\ end_irq' = s.irq
    /\ late_xfers' = s.late
    /\ rxd_ptr' = s.ptr
    /\ spi_armed' = s.spi
    /\ mem' = s.mem
    /\ n_warn' = s.warn
    /\ n_end' = s.ends
    /\ cfg_log' = s.cfg
    /\ m_conn_handle' = s.conn

\* ------------------------------------------------------------- wulpus_spi.c
\* wp_spi_init: the buffer and length every reception is set up with.
wp_spi_rx_buffer == 0
wp_spi_rx_length == WULPUS_BYTES_PER_XFER

\* spi.u.spim.p_reg->RXD.PTR = buffer
wp_spi_set_buffer(s, buffer) ==
    [s EXCEPT !.ptr = buffer]

\* nrf_drv_spi_xfer of XFER_TRX(tx, tx_length, _wp_spi_rx_buffer, rx_length)
\* with HOLD_XFER | RX_POSTINC | REPEATED_XFER: the transfer is set up with
\* the descriptor's receive buffer and held until the timer starts it.
wp_spi_init_reception(s) ==
    [s EXCEPT !.ptr = wp_spi_rx_buffer, !.spi = TRUE]

\* nrf_drv_spi_abort
wp_spi_stop_reception(s) ==
    [s EXCEPT !.spi = FALSE]

\* memset, memcpy, one TX transfer of the packet to the companion device.
\* The log entry keeps what was running when the packet went out.
wp_spi_send_config(s, buffer) ==
    [s EXCEPT !.cfg = Append(@, [pkt |-> buffer, tim |-> s.tim, spi |-> s.spi])]

\* ------------------------------------------------------------- wulpus_ppi.c
\* Fault-injected variant for C19: a start that enables the timers without
\* clearing them.
wp_ppi_start_transfer_resume(s) ==
    [s EXCEPT !.tim = TRUE]

\* nrfx_timer_clear and nrfx_timer_enable of both timers
wp_ppi_start_transfer(s) ==
    [s EXCEPT !.cnt = 0, !.tim = TRUE]

\* Fault-injected variant for C4: a stop that leaves the timers
\* running.
wp_ppi_stop_transfer_running(s) ==
    s

\* nrfx_timer_disable of both timers; the counter is not cleared
wp_ppi_stop_transfer(s) ==
    [s EXCEPT !.tim = FALSE]

\* ------------------------------------------------------------------- main.c
\* Fault-injected variant for C1: head advanced without the modulo.
ppi_end_handler_nowrap(s) ==
    [s EXCEPT !.head = s.head + 1, !.ends = @ + 1]

\* Fault-injected variant for C6: a completion that would move head
\* onto tail drops the new frame instead.
ppi_end_handler_drop(s) ==
    LET h == (s.head + 1) % num_frames
    IN  [s EXCEPT !.head = IF h = s.tail THEN @ ELSE h,
                  !.warn = IF h = s.tail THEN @ + 1 ELSE @,
                  !.ends = @ + 1]

\* Fault-injected variant for C14: the completion handler without the
\* overflow warning.
ppi_end_handler_quiet(s) ==
    [s EXCEPT !.head = (s.head + 1) % num_frames, !.ends = @ + 1]

ppi_end_handler(s) ==
    LET h == (s.head + 1) % num_frames
    IN  [s EXCEPT !.head = h,
                  !.warn = IF h = s.tail THEN @ + 1 ELSE @,
                  !.ends = @ + 1]

\* wulpus_ppi.c: compare handler of tim_counter; one end handler is registered.
wp_ppi_tim_counter_handler(s) ==
    ppi_end_handler(wp_spi_stop_reception(wp_ppi_stop_transfer(s)))

\* case NRF_GPIOTE_POLARITY_TOGGLE with the pin read high
Arms(action, polarity) ==
    action = "TOGGLE" /\ polarity = 1

gpio_data_ready_handler(s, action, polarity) ==
    IF Arms(action, polarity)
    THEN LET s1 == wp_spi_set_buffer(s, s.head * FRAME_SIZE)
             s2 == wp_spi_init_reception(s1)
             s3 == wp_ppi_start_transfer(s2)
         IN  s3
    ELSE s

\* Fault-injected variant for C13: the restart packet goes out before the
\* sequencer and the reception are stopped.
ble_conn_handler_early(s, connected) ==
    IF ~connected
    THEN wp_spi_stop_reception(wp_ppi_stop_transfer(
             wp_spi_send_config(s, WULPUS_RESTART_PACKET)))
    ELSE s

ble_conn_handler(s, connected) ==
    IF ~connected
    THEN LET s1 == wp_ppi_stop_transfer(s)
             s2 == wp_spi_stop_reception(s1)
         IN  wp_spi_send_config(s2, WULPUS_RESTART_PACKET)
    ELSE s

\* Fault-injected variant for C2: the command handler without the
\* reset of the indices.
ble_data_handler_keep(s, cmd) ==
    wp_spi_send_config(wp_spi_stop_reception(wp_ppi_stop_transfer(s)), cmd)

\* Fault-injected variant for C25: the command is forwarded before the
\* sequencer and the reception are stopped.
ble_data_handler_early(s, cmd) ==
    LET s1 == wp_spi_send_config(s, cmd)
        s2 == wp_spi_stop_reception(wp_ppi_stop_transfer(s1))
    IN  [s2 EXCEPT !.head = 0, !.tail = 0]

ble_data_handler(s, cmd) ==
    LET s1 == wp_ppi_stop_transfer(s)
        s2 == wp_spi_stop_reception(s1)
        s3 == wp_spi_send_config(s2, cmd)
    IN  [s3 EXCEPT !.head = 0, !.tail = 0]

\* Arguments of the four wp_ble_transmit calls of handle_pending_frames.
SegmentOffset(i) ==
    IF i = 0 THEN 0 * WULPUS_BYTES_PER_XFER + 1 ELSE i * WULPUS_BYTES_PER_XFER

SegmentLength(i) ==
    IF i = 0 THEN WULPUS_BYTES_PER_XFER + 1 ELSE WULPUS_BYTES_PER_XFER

SegmentData(tail, i) ==
    tail * FRAME_SIZE + SegmentOffset(i)

\* ------------------------------------------------------------- wulpus_ble.c
\* What ble_nus_data_send can answer: without a connection handle the link
\* context is not found; with one, success, no send resources, notifications
\* not enabled, or a rejected parameter.
SendResults(conn) ==
    IF conn = BLE_CONN_HANDLE_INVALID
    THEN {NRF_ERROR_NOT_FOUND}
    ELSE {NRF_SUCCESS, NRF_ERROR_RESOURCES, NRF_ERROR_INVALID_STATE,
          NRF_ERROR_INVALID_PARAM}

\* APP_ERROR_CHECK(err): the error handler is entered unless err is success.
AppErrorCheckFails(err) ==
    err # NRF_SUCCESS

\* Fault-injected variant for C7: "no resources" ends the call as
\* success does, so the segment is dropped.
wp_ble_transmit_drop(err) ==
    IF err \in {NRF_SUCCESS, NRF_ERROR_RESOURCES} THEN "return" ELSE "fault"

\* Fault-injected variant for C9: the statuses wp_ble_transmit
\* lets through are not checked by its caller.
wp_ble_transmit_ignore(err) ==
    IF err = NRF_ERROR_RESOURCES
    THEN "retry"
    ELSE IF err \in {NRF_SUCCESS, NRF_ERROR_INVALID_STATE, NRF_ERROR_NOT_FOUND}
         THEN "return"
         ELSE "fault"

\* Fault-injected variant for C17: the loop of wp_ble_transmit goes round on
\* success as it does on "no resources".
wp_ble_transmit_spin(err) ==
    IF err \in {NRF_SUCCESS, NRF_ERROR_RESOURCES} THEN "retry" ELSE "fault"

\* Fault-injected variant for C18: "no resources" is given up on as a fatal
\* status is.
wp_ble_transmit_giveup(err) ==
    IF err = NRF_SUCCESS THEN "return" ELSE "fault"

\* One pass of the do-while body of wp_ble_transmit and of the
\* APP_ERROR_CHECK around the call in handle_pending_frames:
\* "fault" (error handler entered), "retry" (loop again), "return" (success).
wp_ble_transmit(err) ==
    IF /\ ~(err \in {NRF_ERROR_INVALID_STATE, NRF_ERROR_RESOURCES, NRF_ERROR_NOT_FOUND})
       /\ AppErrorCheckFails(err)
    THEN "fault"
    ELSE IF err = NRF_ERROR_RESOURCES
         THEN "retry"
         ELSE IF AppErrorCheckFails(err) THEN "fault" ELSE "return"

\* --------------------------------------------------------------------- Init
\* The shared state after main() has initialised the modules (and .bss is zero).
BootState ==
    [head |-> 0, tail |-> 0, tim |-> FALSE, cnt |-> 0, irq |-> FALSE,
     late |-> 0, ptr |-> wp_spi_rx_buffer, spi |-> FALSE, mem |-> <<>>,
     warn |-> 0, ends |-> 0, cfg |-> <<>>,
     conn |-> BLE_CONN_HANDLE_INVALID]

InitHw ==
    /\ rx_buffer_head = BootState.head
    /\ rx_buffer_tail = BootState.tail
    /\ tim_enabled = BootState.tim
    /\ tim_counter = BootState.cnt
    /\ end_irq = BootState.irq
    /\ late_xfers = BootState.late
    /\ rxd_ptr = BootState.ptr
    /\ spi_armed = BootState.spi
    /\ mem = BootState.mem
    /\ n_warn = BootState.warn
    /\ n_end = BootState.ends
    /\ cfg_log = BootState.cfg
    /\ m_conn_handle = BootState.conn

NoReg == [var |-> "none", val |-> 0]

InitObs ==
    /\ link_evt = NoEvt
    /\ aborted = FALSE
    /\ since_cmd = FALSE

InitMain ==
    /\ pc = "check"
    /\ reg = NoReg
    /\ seg = 0
    /\ data = 0
    /\ length = 0
    /\ calls = <<>>
    /\ sent = <<>>
    /\ drain_tail = 0

NoOp ==
    [op |-> "none", reg |-> "none", handler |-> "none", ret |-> "none",
     calls |-> <<>>]

\* The registries as main() leaves them.
MainRegistered ==
    /\ wp_gpio_data_handlers = <<"gpio_data_ready_handler">>
    /\ wp_ppi_end_handlers = <<"ppi_end_handler">>
    /\ wp_ble_conn_handlers = <<"wp_gpio_ble_conn_indicate", "ble_conn_handler">>
    /\ wp_ble_data_handlers = <<"ble_data_handler">>
    /\ reg_op = NoOp

InitConfig(configs) ==
    /\ \E c \in configs :
          /\ num_frames = c.frames
          /\ budget = [seqs |-> c.seqs, busy |-> c.busy, late |-> c.late]
    /\ MainRegistered

Init ==
    /\ InitConfig(Configurations)
    /\ InitHw
    /\ InitMain
    /\ InitObs

InitCapture ==
    /\ InitConfig(CaptureConfigurations)
    /\ InitHw
    /\ InitMain
    /\ InitObs

\* Interrupts are taken unless the error handler has disabled them.
IrqEnabled == pc # "fault"

\* ------------------------------------------------- hardware chain (PPI, SPIM)
\* One block transfer: the timer's compare starts the SPIM, RXD.PTR
\* post-increments, the SPIM's end event counts tim_counter up; at
\* WULPUS_NUMBER_OF_XFERS the counter is cleared by its short and the compare
\* interrupt is raised.
Block(ptr) == ptr \div WULPUS_BYTES_PER_XFER

Write(m, b, v) ==
    [x \in (DOMAIN m) \cup {b} |-> IF x = b THEN v ELSE m[x]]

\* The capture a block transfer belongs to: captures are numbered by the
\* completion that ends them.
Capture == n_end + 1

Transfer ==
    /\ tim_enabled
    /\ spi_armed
    /\ end_irq => late_xfers < budget.late
    /\ mem' = Write(mem, Block(rxd_ptr), Capture)
    /\ rxd_ptr' = rxd_ptr + wp_spi_rx_length
    /\ IF tim_counter + 1 = WULPUS_NUMBER_OF_XFERS
       THEN tim_counter' = 0 /\ end_irq' = TRUE
       ELSE tim_counter' = tim_counter + 1 /\ end_irq' = end_irq
    /\ late_xfers' = IF end_irq THEN late_xfers + 1 ELSE 0
    /\ cfg_log' = <<>>
    /\ link_evt' = NoEvt
    /\ UNCHANGED <<config_vars, rx_buffer_head, rx_buffer_tail, tim_enabled,
                   spi_armed, n_warn, n_end, m_conn_handle, main_vars, aborted,
                   since_cmd>>

\* ------------------------------------------------------- interrupt handlers
\* _wp_ppi_tim_counter_handler
CounterIrq ==
    /\ IrqEnabled
    /\ end_irq
    /\ Install(wp_ppi_tim_counter_handler(
                  [State EXCEPT !.irq = FALSE, !.late = 0, !.cfg = <<>>]))
    /\ link_evt' = NoEvt
    /\ since_cmd' = FALSE
    /\ UNCHANGED <<config_vars, main_vars, aborted>>

\* _wp_gpio_data_ready_handler -> gpio_data_ready_handler
DataReady ==
    /\ IrqEnabled
    /\ n_end < budget.seqs
    /\ \E action \in Polarities, polarity \in {0, 1} :
          /\ Install(gpio_data_ready_handler([State EXCEPT !.cfg = <<>>],
                                             action, polarity))
          /\ aborted' = IF Arms(action, polarity) THEN FALSE ELSE aborted
    /\ link_evt' = NoEvt
    /\ UNCHANGED <<config_vars, main_vars, since_cmd>>

\* _wp_ble_evt_handler, BLE_GAP_EVT_CONNECTED
Connected ==
    /\ IrqEnabled
    /\ m_conn_handle = BLE_CONN_HANDLE_INVALID
    /\ \E h \in ConnHandles :
          Install(ble_conn_handler([State EXCEPT !.conn = h, !.cfg = <<>>], TRUE))
    /\ link_evt' = LinkEvt("connected", "none")
    /\ UNCHANGED <<config_vars, main_vars, aborted, since_cmd>>

\* _wp_ble_evt_handler, BLE_GAP_EVT_DISCONNECTED
Disconnected ==
    /\ IrqEnabled
    /\ m_conn_handle # BLE_CONN_HANDLE_INVALID
    /\ Install(ble_conn_handler(
                  [State EXCEPT !.conn = BLE_CONN_HANDLE_INVALID, !.cfg = <<>>],
                  FALSE))
    /\ link_evt' = LinkEvt("disconnected", "none")
    /\ aborted' = (aborted \/ (tim_enabled /\ ~end_irq))
    /\ UNCHANGED <<config_vars, main_vars, since_cmd>>

\* _wp_ble_nus_handler, BLE_NUS_EVT_RX_DATA -> ble_data_handler
DataReceived ==
    /\ IrqEnabled
    /\ m_conn_handle # BLE_CONN_HANDLE_INVALID
    /\ \E cmd \in Commands :
          /\ Install(ble_data_handler([State EXCEPT !.cfg = <<>>], cmd))
          /\ link_evt' = LinkEvt("data", cmd)
    /\ aborted' = (aborted \/ (tim_enabled /\ ~end_irq))
    /\ since_cmd' = TRUE
    /\ UNCHANGED <<config_vars, main_vars>>

\* ---------------------------------------------- main loop: handle_pending_frames
\* if (rx_buffer_tail != rx_buffer_head): the two indices are loaded one
\* after the other, in the order the compiler chose.
CheckLoad ==
    /\ pc = "check"
    /\ \E v \in {"tail", "head"} :
          reg' = [var |-> v,
                  val |-> IF v = "tail" THEN rx_buffer_tail ELSE rx_buffer_head]
    /\ pc' = "check2"
    /\ NoLinkEvent
    /\ UNCHANGED <<config_vars, rx_buffer_head, rx_buffer_tail, periph_vars,
                   seg, data, length, calls, sent, drain_tail>>

\* Fault-injected variant for C23: the loop body runs without the emptiness
\* test (a do-while loop).
CheckCompare_enter ==
    /\ pc = "check2"
    /\ pc' = "xmit"
    /\ seg' = 0
    /\ data' = SegmentData(rx_buffer_tail, 0)
    /\ length' = SegmentLength(0)
    /\ calls' = <<>>
    /\ sent' = <<>>
    /\ drain_tail' = rx_buffer_tail
    /\ reg' = NoReg
    /\ NoLinkEvent
    /\ UNCHANGED <<config_vars, rx_buffer_head, rx_buffer_tail, periph_vars>>

CheckCompare ==
    /\ pc = "check2"
    /\ LET other == IF reg.var = "tail" THEN rx_buffer_head ELSE rx_buffer_tail
       IN  IF reg.val # other
           THEN /\ pc' = "xmit"
                /\ seg' = 0
                /\ data' = SegmentData(rx_buffer_tail, 0)
                /\ length' = SegmentLength(0)
                /\ calls' = <<>>
                /\ sent' = <<>>
                /\ drain_tail' = rx_buffer_tail
           ELSE /\ pc' = "check"
                /\ UNCHANGED <<seg, data, length, calls, sent, drain_tail>>
    /\ reg' = NoReg
    /\ NoLinkEvent
    /\ UNCHANGED <<config_vars, rx_buffer_head, rx_buffer_tail, periph_vars>>

BusyCalls(cs) == Cardinality({i \in 1..Len(cs) : cs[i].err = NRF_ERROR_RESOURCES})

NewCall(err) ==
    [data |-> data, length |-> length, err |-> err, seg |-> seg,
     tail |-> rx_buffer_tail]

\* One call of ble_nus_data_send inside wp_ble_transmit, and what follows it.
Transmit ==
    /\ pc = "xmit"
    /\ \E err \in SendResults(m_conn_handle) :
          LET cs == IF calls # <<>> /\ calls[Len(calls)].err = NRF_ERROR_RESOURCES
                    THEN calls ELSE <<>>
              out == wp_ble_transmit(err)
          IN  /\ out = "retry" => BusyCalls(cs) < budget.busy
              /\ calls' = Append(cs, NewCall(err))
              /\ CASE out = "retry" ->
                        UNCHANGED <<pc, seg, data, length, sent>>
                   [] out = "fault" ->
                        /\ pc' = "fault"
                        /\ UNCHANGED <<seg, data, length, sent>>
                   [] out = "return" ->
                        /\ sent' = Append(sent, [data |-> data, length |-> length,
                                                 seg |-> seg])
                        /\ IF seg + 1 < WULPUS_NUMBER_OF_XFERS
                           THEN /\ seg' = seg + 1
                                /\ data' = SegmentData(rx_buffer_tail, seg + 1)
                                /\ length' = SegmentLength(seg + 1)
                                /\ pc' = "xmit"
                           ELSE /\ pc' = "adv_load"
                                /\ UNCHANGED <<seg, data, length>>
    /\ NoLinkEvent
    /\ UNCHANGED <<config_vars, rx_buffer_head, rx_buffer_tail, periph_vars,
                   reg, drain_tail>>

\* rx_buffer_tail = (rx_buffer_tail + 1) % WULPUS_NUM_BUFFERED_FRAMES:
\* a load and a store, with interrupts enabled in between.
AdvanceLoad ==
    /\ pc = "adv_load"
    /\ reg' = [var |-> "tail", val |-> rx_buffer_tail]
    /\ pc' = "adv_store"
    /\ NoLinkEvent
    /\ UNCHANGED <<config_vars, rx_buffer_head, rx_buffer_tail, periph_vars,
                   seg, data, length, calls, sent, drain_tail>>

AdvanceTail(t) == (t + 1) % num_frames

AdvanceStore ==
    /\ pc = "adv_store"
    /\ rx_buffer_tail' = AdvanceTail(reg.val)
    /\ pc' = "check"
    /\ reg' = NoReg
    /\ seg' = 0
    /\ data' = 0
    /\ length' = 0
    /\ calls' = <<>>
    /\ sent' = <<>>
    /\ drain_tail' = 0
    /\ NoLinkEvent
    /\ UNCHANGED <<config_vars, rx_buffer_head, periph_vars>>

\* The error handler, entered by a failed APP_ERROR_CHECK, disables the
\* interrupts and never returns: it halts (the state stays as it is) or
\* resets the system, which starts again from the initial state.
SystemReset ==
    /\ pc = "fault"
    /\ Install(BootState)
    /\ link_evt' = NoEvt
    /\ aborted' = FALSE
    /\ since_cmd' = FALSE
    /\ pc' = "check"
    /\ reg' = NoReg
    /\ seg' = 0
    /\ data' = 0
    /\ length' = 0
    /\ calls' = <<>>
    /\ sent' = <<>>
    /\ drain_tail' = 0
    /\ UNCHANGED config_vars

Next ==
    \/ Transfer
    \/ CounterIrq
    \/ DataReady
    \/ Connected
    \/ Disconnected
    \/ DataReceived
    \/ CheckLoad
    \/ CheckCompare
    \/ Transmit
    \/ AdvanceLoad
    \/ AdvanceStore
    \/ SystemReset

Spec == Init /\ [][Next]_vars

\* The capture side alone: no drain and no link event.
NextCapture ==
    \/ Transfer
    \/ CounterIrq
    \/ DataReady

SpecCapture == InitCapture /\ [][NextCapture]_vars

\* ---------------------------------------------------------------- type check
TypeOK ==
    /\ num_frames \in {2, 3, WULPUS_NUM_BUFFERED_FRAMES}
    /\ rx_buffer_head \in Nat
    /\ rx_buffer_tail \in Nat
    /\ tim_enabled \in BOOLEAN
    /\ tim_counter \in 0..(WULPUS_NUMBER_OF_XFERS - 1)
    /\ end_irq \in BOOLEAN
    /\ spi_armed \in BOOLEAN
    /\ n_end \in 0..budget.seqs
    /\ pc \in {"check", "check2", "xmit", "adv_load", "adv_store", "fault"}
    /\ seg \in 0..(WULPUS_NUMBER_OF_XFERS - 1)
    /\ aborted \in BOOLEAN
    /\ since_cmd \in BOOLEAN

\* ======================================================================
\* Properties
\* ======================================================================
InRing(i) == i \in 0..(num_frames - 1)

\* C1: in every reachable state, whatever the interleaving of data-ready
\* edges, completions, drain steps, commands and disconnects, both ring
\* indices lie in [0, C).
C1_IndicesInRange ==
    /\ InRing(rx_buffer_head)
    /\ InRing(rx_buffer_tail)

\* C1 witness: the head has wrapped round the ring (C completions) while the
\* drain loop has moved the tail to the last slot.
C1_Witness ==
    /\ n_end >= num_frames
    /\ rx_buffer_head = 0
    /\ rx_buffer_tail = num_frames - 1

\* C2: when the handler of a received command has run, from whatever state,
\* the sequencer and the reception are stopped, head and tail are both 0, and
\* the command's bytes have been handed to the companion device exactly once.
C2_CommandResets ==
    link_evt.kind = "data" =>
        /\ ~tim_enabled
        /\ ~spi_armed
        /\ rx_buffer_head = 0
        /\ rx_buffer_tail = 0
        /\ Len(cfg_log) = 1
        /\ cfg_log[1].pkt = link_evt.arg

\* C2 witness: a command received with two undrained frames queued
\* (tail = 0, head = 2), both discarded.
C2_Witness ==
    /\ link_evt.kind = "data"
    /\ link_evt.head = 2
    /\ link_evt.tail = 0
    /\ rx_buffer_head = 0
    /\ rx_buffer_tail = 0

\* C3 (as claimed): when the handler of a link disconnect has run, head and
\* tail are both 0.
C3_DisconnectResets ==
    link_evt.kind = "disconnected" =>
        /\ rx_buffer_head = 0
        /\ rx_buffer_tail = 0

\* C3 failing input: a disconnect with one undrained frame queued; the
\* handler has returned and the frame is still queued.
C3_FailingInput ==
    /\ link_evt.kind = "disconnected"
    /\ link_evt.head = 1
    /\ link_evt.tail = 0
    /\ rx_buffer_head = 1
    /\ rx_buffer_tail = 0

\* A capture stopped by the session controller before its completion event,
\* and no capture armed since.
AbortedCapture == aborted /\ pc # "fault"

\* C4: a capture sequence stopped by a command or a disconnect before its
\* completion event leaves the timers and the reception stopped with no
\* completion pending, and as long as no new capture is armed no completion
\* handler runs and head is not advanced (a command resets it to 0).
C4_AbortNeverCompletes ==
    /\ [](AbortedCapture => ~tim_enabled /\ ~spi_armed /\ ~end_irq)
    /\ [][AbortedCapture =>
            /\ n_end' = n_end
            /\ n_warn' = n_warn
            /\ rx_buffer_head' \in {rx_buffer_head, 0}]_vars

\* C4 witness: a disconnect has stopped a capture after part of its block
\* transfers; the counter keeps the partial count and head is where it was.
C4_Witness ==
    /\ AbortedCapture
    /\ link_evt.kind = "disconnected"
    /\ link_evt.tim
    /\ link_evt.cnt \in 1..(WULPUS_NUMBER_OF_XFERS - 1)
    /\ tim_counter = link_evt.cnt
    /\ rx_buffer_head = link_evt.head
    /\ mem # <<>>

\* A step of a reset transition (command or disconnect handler), or of the
\* system reset that restarts the firmware.
ResetStep ==
    \/ link_evt'.kind \in {"data", "disconnected"}
    \/ pc = "fault"

\* All segments of the frame at slot t, in order, as sent.
FrameSent(t) ==
    /\ Len(sent) = WULPUS_NUMBER_OF_XFERS
    /\ \A i \in 1..Len(sent) :
          /\ sent[i].seg = i - 1
          /\ sent[i].data = SegmentData(t, i - 1)

\* C5 (as claimed): in every step that is no reset transition, head changes
\* only in a completion, to (head + 1) mod C; tail changes only in the drain
\* loop, to (tail + 1) mod C, after all K segments of the frame at tail were
\* sent; no step changes both; and each reset transition writes both indices.
C5_FrameEffects ==
    [][/\ ~ResetStep =>
            /\ rx_buffer_head' # rx_buffer_head =>
                  /\ n_end' = n_end + 1
                  /\ rx_buffer_head' = (rx_buffer_head + 1) % num_frames
            /\ rx_buffer_tail' # rx_buffer_tail =>
                  /\ pc = "adv_store"
                  /\ rx_buffer_tail' = (rx_buffer_tail + 1) % num_frames
                  /\ FrameSent(rx_buffer_tail)
            /\ rx_buffer_head' = rx_buffer_head \/ rx_buffer_tail' = rx_buffer_tail
       /\ link_evt'.kind \in {"data", "disconnected"} =>
            /\ rx_buffer_head' = 0
            /\ rx_buffer_tail' = 0]_vars

\* C5 failing input: the drain loop has loaded tail = 1 for its update, a
\* command resets both indices, and the loop is about to store 2 over tail = 0.
C5_FailingInput ==
    /\ pc = "adv_store"
    /\ reg.val = 1
    /\ rx_buffer_tail = 0
    /\ num_frames = 3

\* ----------------------------------------------------------------- overflow
\* The blocks of the receive buffer that make up one ring slot.
SlotBlocks(slot) ==
    (slot * WULPUS_NUMBER_OF_XFERS)..((slot + 1) * WULPUS_NUMBER_OF_XFERS - 1)

\* Every block of the slot holds data of capture c.
SlotHolds(slot, c) ==
    \A b \in SlotBlocks(slot) : b \in DOMAIN mem /\ mem[b] = c

\* C6 (as claimed): with C = 3 and no draining, after the 4th completion
\* head = tail = 1, one overflow warning has been logged, and slot 1 holds
\* the 4th capture.
C6_OverflowAsClaimed ==
    (num_frames = 3 /\ n_end = 4) =>
        /\ rx_buffer_head = 1
        /\ rx_buffer_tail = 1
        /\ n_warn = 1
        /\ SlotHolds(1, 4)

\* C6 (amended): with capacity C and no draining, after completion C + 1
\* head = 1 and tail is still 0, exactly one overflow warning has been
\* logged (by completion C, when head wrapped onto tail), and the capture
\* C + 1 has overwritten slot 0, the slot of the first capture (and stays
\* there until the next edge starts a capture).
C6_Overflow ==
    /\ n_end < num_frames => n_warn = 0
    /\ n_end = num_frames => rx_buffer_head = rx_buffer_tail /\ n_warn = 1
    /\ n_end = num_frames + 1 =>
          /\ rx_buffer_head = 1
          /\ rx_buffer_tail = 0
          /\ n_warn = 1
          /\ ~tim_enabled => SlotHolds(0, num_frames + 1)

\* C6 witness: C = 3, four completions, the 4th capture is in slot 0.
C6_Witness ==
    /\ num_frames = 3
    /\ n_end = 4
    /\ rx_buffer_head = 1
    /\ rx_buffer_tail = 0
    /\ n_warn = 1
    /\ SlotHolds(0, 4)

\* -------------------------------------------------------------------- drain
LastCall == calls[Len(calls)]

C8_SegmentFraming ==
    pc = "adv_load" =>
        /\ Len(sent) = 4
        /\ \A i \in 1..Len(sent) : sent[i].seg = i - 1
        /\ [i \in 1..Len(sent) |-> sent[i].length] = <<202, 201, 201, 201>>
        /\ sent[1].data % FRAME_SIZE = 0

\* C8 failing input: a frame has been sent; its first segment starts at the
\* second byte of slot 0 and ends two bytes into the second segment's range.
C8_FailingInput ==
    /\ pc = "adv_load"
    /\ sent[1].data = 1
    /\ sent[1].data + sent[1].length = sent[2].data + 2

\* Statuses of ble_nus_data_send that end the drain with a fatal error.
FatalStatus(err) == err \notin {NRF_SUCCESS, NRF_ERROR_RESOURCES}

\* C9: a call answered by any status but success and "no resources" is the
\* last call: the error handler is entered, the segments after it are not
\* sent, tail is what it was at the call, and nothing but block transfers
\* still under way happens until the system reset.
C9_FatalStatus ==
    /\ [](\A i \in 1..Len(calls) :
             FatalStatus(calls[i].err) =>
                 /\ i = Len(calls)
                 /\ pc = "fault"
                 /\ seg = calls[i].seg
                 /\ Len(sent) = calls[i].seg
                 /\ rx_buffer_tail = calls[i].tail)
    /\ [](pc = "fault" => calls # <<>> /\ FatalStatus(LastCall.err))
    /\ [][pc = "fault" =>
            \/ /\ pc' = "fault"
               /\ UNCHANGED <<calls, sent, seg, rx_buffer_head, rx_buffer_tail>>
            \/ /\ pc' = "check"
               /\ calls' = <<>>
               /\ sent' = <<>>
               /\ rx_buffer_head' = 0
               /\ rx_buffer_tail' = 0]_vars

\* C9 witness: the second segment of the frame at slot 1 was answered
\* "invalid state" after a retry; one segment was sent; tail is still 1.
C9_Witness ==
    /\ pc = "fault"
    /\ seg = 1
    /\ Len(sent) = 1
    /\ Len(calls) = 2
    /\ LastCall.err = NRF_ERROR_INVALID_STATE
    /\ rx_buffer_tail = 1

\* A capture sequence is in progress: armed, running, not yet complete.
Capturing == tim_enabled /\ spi_armed /\ ~end_irq

\* C10 (as claimed): a data-ready edge while a capture is in progress
\* changes nothing of the sequencer: not the timers, not the counter, not
\* the destination.
C10_EdgeWhileCapturing ==
    [][(DataReady /\ Capturing) =>
          UNCHANGED <<tim_enabled, spi_armed, tim_counter, rxd_ptr>>]_vars

\* C10 failing input: a capture into slot 1 has done two of its four block
\* transfers when the next edge can arrive.
C10_FailingInput ==
    /\ Capturing
    /\ rx_buffer_head = 1
    /\ tim_counter = 2
    /\ rxd_ptr = 2 * WULPUS_BYTES_PER_XFER
    /\ n_end < budget.seqs

\* ------------------------------------------------------------------ trigger
\* A step that starts the sequencer from rest: only the data-ready handler
\* enables the timers.
StartStep == ~tim_enabled /\ tim_enabled'

\* C11 (as claimed): a data-ready edge with no capture in progress leaves
\* the reception armed with ring slot head as its destination and the
\* sequencer started from zero, whatever the occupancy of the ring, and
\* changes neither index.
C11_TriggerArmsSlotHead ==
    [][StartStep =>
          /\ rxd_ptr' = rx_buffer_head * FRAME_SIZE
          /\ spi_armed'
          /\ tim_counter' = 0
          /\ UNCHANGED <<rx_buffer_head, rx_buffer_tail>>]_vars

\* C11 failing input: an edge with head = 1 has armed a capture, and the
\* reception points at the start of the buffer (slot 0), not at slot 1.
C11_FailingInput ==
    /\ Capturing
    /\ tim_counter = 0
    /\ rx_buffer_head = 1
    /\ rxd_ptr = wp_spi_rx_buffer

\* ---------------------------------------------------------------- sequencer
\* C12 (as claimed): a started sequence does exactly K block transfers and
\* then raises one completion event; once the counter has reached K no
\* further block transfer starts until the next edge: when the completion
\* is pending or handled, exactly K blocks have been received and the
\* counter has not counted again.
C12_ExactlyKTransfers ==
    /\ late_xfers = 0
    /\ end_irq =>
          /\ rxd_ptr = wp_spi_rx_buffer + WULPUS_NUMBER_OF_XFERS * wp_spi_rx_length
          /\ tim_counter = 0

\* C12 failing input: the compare event is raised and its handler has not
\* run yet; the interval timer, still enabled, has started a fifth block
\* transfer, received behind the frame.
C12_FailingInput ==
    /\ end_irq
    /\ tim_enabled
    /\ late_xfers = 1
    /\ tim_counter = 1
    /\ rxd_ptr = wp_spi_rx_buffer + (WULPUS_NUMBER_OF_XFERS + 1) * wp_spi_rx_length

\* --------------------------------------------------------------- link events
\* C13: when the handler of a disconnect has run, exactly one packet has
\* been handed to the companion device, the restart packet, and it went out
\* with the timers and the reception already stopped; when the handler of a
\* connect has run, nothing has been sent.
C13_RestartPacketOnce ==
    /\ link_evt.kind = "disconnected" =>
          cfg_log = <<[pkt |-> WULPUS_RESTART_PACKET, tim |-> FALSE, spi |-> FALSE]>>
    /\ link_evt.kind = "connected" => cfg_log = <<>>

\* C13 witness: a disconnect that found a capture under way; the restart
\* packet has been sent once, after the stop.
C13_Witness ==
    /\ link_evt.kind = "disconnected"
    /\ link_evt.tim
    /\ link_evt.cnt > 0
    /\ Len(cfg_log) = 1
    /\ cfg_log[1].pkt = WULPUS_RESTART_PACKET
    /\ ~cfg_log[1].tim

\* --------------------------------------------------------------- completion
\* C14: every run of the completion handler sets head to (head + 1) mod C,
\* also onto tail; it logs one overflow warning if and only if the new head
\* equals tail; it leaves tail alone.
C14_CompletionAdvancesHead ==
    [][n_end' = n_end + 1 =>
          /\ rx_buffer_head' = (rx_buffer_head + 1) % num_frames
          /\ rx_buffer_tail' = rx_buffer_tail
          /\ n_warn' = n_warn + (IF rx_buffer_head' = rx_buffer_tail THEN 1 ELSE 0)
          /\ ~tim_enabled'
          /\ ~end_irq']_vars

\* C14 witness: with nothing drained, completion C has moved head onto
\* tail and logged the one warning.
C14_Witness ==
    /\ n_end = num_frames
    /\ rx_buffer_head = rx_buffer_tail
    /\ rx_buffer_tail = 0
    /\ n_warn = 1
    /\ ~tim_enabled

\* -------------------------------------------------------- one drain iteration
\* C15 (as claimed): an iteration of the drain loop that found the ring
\* empty (by the two index values its test read) sends nothing and changes
\* no index; an iteration that entered its body sends, for the slot tail it
\* found, exactly the K segments of that slot and then moves tail one slot
\* on from it, however many frames are queued.
C15_OneFramePerIteration ==
    [][/\ (pc = "check2" /\ pc' = "xmit") =>
             /\ drain_tail' = rx_buffer_tail
             /\ sent' = <<>>
       /\ (pc = "check2" /\ pc' = "check") =>
             UNCHANGED <<rx_buffer_head, rx_buffer_tail, sent, calls>>
       /\ (pc = "adv_store" /\ pc' = "check") =>
             /\ FrameSent(drain_tail)
             /\ rx_buffer_tail = drain_tail
             /\ rx_buffer_tail' = (drain_tail + 1) % num_frames]_vars

\* C15 failing input: the iteration entered for slot 1 and has sent part of
\* it; a command has reset tail to 0, and the remaining segments are about
\* to be read from slot 0.
C15_FailingInput ==
    /\ pc = "xmit"
    /\ drain_tail = 1
    /\ rx_buffer_tail = 0
    /\ Len(sent) = 2
    /\ sent[1].data = SegmentData(1, 0)
    /\ data = SegmentData(0, 2)

\* ------------------------------------------------------------ fatal status
\* C16 (as claimed): once the drain has been aborted by a fatal status, the
\* sequencer and the reception are stopped and head and tail are both 0,
\* as after a reset transition of the session controller.
C16_FatalResets ==
    pc = "fault" =>
        /\ ~tim_enabled
        /\ ~spi_armed
        /\ rx_buffer_head = 0
        /\ rx_buffer_tail = 0

\* C16 failing input: the drain of slot 0 was aborted by a fatal status on
\* its second segment while the next capture was under way; the error
\* handler has been entered, the timers run on and the one frame is still
\* queued.
C16_FailingInput ==
    /\ pc = "fault"
    /\ FatalStatus(LastCall.err)
    /\ Len(sent) = 1
    /\ tim_enabled
    /\ spi_armed
    /\ rx_buffer_tail = 0
    /\ rx_buffer_head = 1

\* ----------------------------------------------------------------- liveness
\* The runs of the drain's liveness: rings of 2 and 3 slots that captures
\* fill while the main loop drains them, with Busy answers in between.
DrainConfigurations ==
    {[frames |-> c, seqs |-> MaxSequences, busy |-> MaxBusy, late |-> 0] :
        c \in {2, 3}}

InitDrain ==
    /\ InitConfig(DrainConfigurations)
    /\ InitHw
    /\ InitMain
    /\ InitObs

\* A call of ble_nus_data_send that is answered by success or Busy.
TransmitOk == Transmit /\ pc' # "fault"

\* The steps of the main loop, with a transport that never fails.
MainLoop ==
    \/ CheckLoad
    \/ CheckCompare
    \/ TransmitOk
    \/ AdvanceLoad
    \/ AdvanceStore

\* No command and no disconnect: captures, the link coming up, the drain.
NextDrain ==
    \/ Transfer
    \/ CounterIrq
    \/ DataReady
    \/ Connected
    \/ MainLoop

\* The main loop keeps running (while (1) in main), the link comes up, and
\* the transport answers Busy at most budget.busy times in a row.
SpecDrain ==
    /\ InitDrain
    /\ [][NextDrain]_vars
    /\ WF_vars(Connected)
    /\ WF_vars(MainLoop)

\* The ring is empty and the drain loop is at its emptiness test.
Drained ==
    /\ rx_buffer_head = rx_buffer_tail
    /\ pc \in {"check", "check2"}

\* C17: with a transport that answers every segment by success after
\* finitely many Busy answers, a main loop that keeps running, no reset, and
\* completions that cease, a non-empty ring always becomes empty again and
\* in the end stays empty; every iteration that ends has sent the K
\* segments of the frame at tail and moved tail past it.
C17_DrainLiveness ==
    /\ (rx_buffer_head # rx_buffer_tail) ~> (rx_buffer_head = rx_buffer_tail)
    /\ (pc = "xmit") ~> (pc = "check")
    /\ <>[]Drained
    /\ [][(pc = "adv_store" /\ pc' = "check") =>
             /\ FrameSent(drain_tail)
             /\ rx_buffer_tail' = (drain_tail + 1) % num_frames]_vars

\* C17 witness: two frames are queued in the ring of three, the first one
\* has gone out and the loop is sending the second after a Busy answer.
C17_Witness ==
    /\ num_frames = 3
    /\ rx_buffer_head = 2
    /\ rx_buffer_tail = 1
    /\ pc = "xmit"
    /\ calls # <<>>
    /\ LastCall.err = NRF_ERROR_RESOURCES

\* -------------------------------------------------------------------- retry
\* wp_ble_transmit is in its loop: the last call was answered Busy.
Retrying ==
    /\ calls # <<>>
    /\ LastCall.err = NRF_ERROR_RESOURCES

\* C18: a Busy answer keeps wp_ble_transmit in its loop on the same segment
\* and any other answer ends the send; while the loop goes round the drain
\* makes no progress: the next call is for the same segment with the same
\* data and length, nothing is added to what was sent, and tail changes only
\* by a command handler that interrupts the loop.
C18_RetryUntilNotBusy ==
    /\ [](Retrying =>
             /\ pc = "xmit"
             /\ seg = LastCall.seg
             /\ data = LastCall.data
             /\ length = LastCall.length
             /\ Len(sent) = seg)
    /\ []((calls # <<>> /\ ~Retrying) =>
             \/ pc = "fault"
             \/ pc \in {"adv_load", "adv_store"}
             \/ pc = "xmit" /\ seg = LastCall.seg + 1)
    /\ [][Retrying =>
             /\ calls' # calls =>
                   /\ Len(calls') = Len(calls) + 1
                   /\ calls'[Len(calls')].seg = seg
                   /\ calls'[Len(calls')].data = data
                   /\ calls'[Len(calls')].length = length
             /\ (calls' = calls \/ Retrying') =>
                   UNCHANGED <<pc, seg, data, length, sent>>
             /\ rx_buffer_tail' # rx_buffer_tail => link_evt'.kind = "data"]_vars

\* C18 witness: the send of a segment has been answered Busy three times
\* and is still in its loop, and a command that arrived meanwhile has taken
\* effect: the frame being sent was queued (head = 1) and head is now 0.
C18_Witness ==
    /\ Retrying
    /\ BusyCalls(calls) = DeepBusy
    /\ link_evt.kind = "data"
    /\ link_evt.head = 1
    /\ rx_buffer_head = 0
    /\ pc = "xmit"

\* ---------------------------------------------------------- start and stop
\* C19: in every reachable state, stopping twice is stopping once, stopping
\* a stopped sequencer changes nothing, a stop never arms the reception nor
\* enables a timer, starting twice is starting once, and a start leaves the
\* counter at zero; so the completion event of any sequence, also of one
\* started after an aborted one that had counted some transfers, is raised
\* by the K-th block transfer since its start.
C19_StartStopIdempotent ==
    /\ [](LET s == State
          IN  /\ wp_ppi_stop_transfer(wp_ppi_stop_transfer(s)) = wp_ppi_stop_transfer(s)
              /\ ~s.tim => wp_ppi_stop_transfer(s) = s
              /\ ~wp_ppi_stop_transfer(s).tim
              /\ wp_ppi_stop_transfer(s).spi = s.spi
              /\ wp_ppi_start_transfer(wp_ppi_start_transfer(s)) = wp_ppi_start_transfer(s)
              /\ wp_ppi_start_transfer(s).cnt = 0
              /\ wp_ppi_start_transfer(s).tim)
    /\ [](Capturing => rxd_ptr = wp_spi_rx_buffer + tim_counter * wp_spi_rx_length)
    /\ [][(~end_irq /\ end_irq') =>
             /\ tim_counter = WULPUS_NUMBER_OF_XFERS - 1
             /\ rxd_ptr' = wp_spi_rx_buffer + WULPUS_NUMBER_OF_XFERS * wp_spi_rx_length]_vars
    /\ [][StartStep => tim_counter' = 0]_vars

\* C19 witness: a sequence has done the first of its block transfers with
\* the counter at 1, while the buffer still holds the third block of an
\* earlier sequence that was stopped, by a link event, with its counter at 3.
C19_Witness ==
    /\ Capturing
    /\ n_end = 0
    /\ tim_counter = 1
    /\ rxd_ptr = wp_spi_rx_buffer + wp_spi_rx_length
    /\ 2 \in DOMAIN mem
    /\ m_conn_handle = BLE_CONN_HANDLE_INVALID

\* ------------------------------------------------- command during a drain
\* C20 (as claimed): after a command, and as long as no sequence has
\* completed since, the drain loop is at the start of an iteration only
\* with the ring empty (so it sends nothing), also when the command arrived
\* part-way through an iteration that has finished meanwhile.
C20_NoStaleFrames ==
    (since_cmd /\ pc = "check") => rx_buffer_head = rx_buffer_tail

\* C20 failing input: a command arrived while the frame at slot 0 was being
\* sent; the iteration has finished and moved tail to 1 with head = 0: the
\* ring of three reads as holding slots 1 and 2, captured before the
\* command or never.
C20_FailingInput ==
    /\ since_cmd
    /\ pc = "check"
    /\ num_frames = 3
    /\ rx_buffer_head = 0
    /\ rx_buffer_tail = 1

\* ------------------------------------------------------ capture during drain
\* The ring slot a byte offset of rx_buffer lies in.
SlotOf(addr) == addr \div FRAME_SIZE

\* C21 (as claimed): while the drain loop is sending a frame, also while it
\* retries after Busy, a capture in progress receives into another slot than
\* the one being sent.
C21_NoSendFromCaptureSlot ==
    (pc = "xmit" /\ Capturing) => SlotOf(data) # SlotOf(rxd_ptr)

\* C21 failing input: the frame at slot 0 is being sent, its send stalled
\* by a Busy answer, while the next capture, armed with head = 1, has
\* received two of its blocks into slot 0.
C21_FailingInput ==
    /\ pc = "xmit"
    /\ Retrying
    /\ Capturing
    /\ rx_buffer_tail = 0
    /\ rx_buffer_head = 1
    /\ tim_counter = 2
    /\ SlotOf(data) = 0
    /\ SlotOf(rxd_ptr) = 0

\* --------------------------------------------------------------------- FIFO
\* Frames the ring reads as unread, and the capture that is the oldest of
\* them: completions are numbered 1, 2, ... and each adds one frame.
Unread == (rx_buffer_head - rx_buffer_tail + num_frames) % num_frames

OldestUnread == n_end - Unread + 1

\* C22 (as claimed): with no reset, no fatal status and no completion that
\* moved head onto tail, the frame the drain loop is sending is the oldest
\* unread one: the slot at tail holds the blocks of the capture that
\* completed first among those not yet sent, so frames go out once each, in
\* the order of their completions.
C22_FifoDelivery ==
    (n_warn = 0 /\ pc = "xmit") =>
        /\ Unread > 0
        /\ SlotOf(data) = rx_buffer_tail
        /\ SlotHolds(rx_buffer_tail, OldestUnread)

\* C22 failing input: two captures have completed and the first frame has
\* been sent; the loop is sending slot 1 for the second frame, but the
\* second capture was received into slot 0 and slot 1 was never written.
C22_FailingInput ==
    /\ n_warn = 0
    /\ n_end = 2
    /\ pc = "xmit"
    /\ rx_buffer_tail = 1
    /\ rx_buffer_head = 2
    /\ SlotHolds(0, 2)
    /\ SlotBlocks(1) \cap DOMAIN mem = {}

\* ----------------------------------------------------------------- overflow
\* C23 (as claimed): when a completion has made head equal tail, the drain
\* loop sends nothing: with no command since the last completion, the loop
\* is never inside an iteration while head == tail.
C23_OverflowAsClaimed ==
    (rx_buffer_head = rx_buffer_tail /\ n_warn > 0 /\ ~since_cmd) => pc # "xmit"

\* The emptiness test has read nothing yet, or the index it has read still
\* has the value it read.
FreshTest == pc = "check" \/ (pc = "check2" /\ reg.val = rx_buffer_head)

\* C23: while head == tail, an emptiness test that has read no stale index
\* starts no iteration, so nothing is sent; and the next completion leaves
\* tail alone and moves head to the successor of tail, so exactly one frame,
\* the one at slot tail, reads as unread.
C23_OverflowReadsEmpty ==
    [][/\ (rx_buffer_head = rx_buffer_tail /\ FreshTest) => pc' # "xmit"
       /\ (rx_buffer_head = rx_buffer_tail /\ n_end' = n_end + 1) =>
             /\ rx_buffer_tail' = rx_buffer_tail
             /\ rx_buffer_head' = (rx_buffer_tail + 1) % num_frames
             /\ Unread' = 1]_vars

\* C23 witness: C completions have wrapped head onto tail with nothing
\* drained (one warning), and the loop has read an index for its test.
C23_Witness ==
    /\ n_end = num_frames
    /\ n_warn = 1
    /\ rx_buffer_head = rx_buffer_tail
    /\ pc = "check2"
    /\ reg.val = rx_buffer_head
    /\ ~since_cmd

\* ----------------------------------------------------------- segment ranges
\* The bytes of the receive buffer a send reads: [data, data + length).
SentBytes(s) == s.data..(s.data + s.length - 1)

\* The bytes of ring slot t in the receive buffer.
SlotBytes(t) == (t * FRAME_SIZE)..((t + 1) * FRAME_SIZE - 1)

\* Every send of the iteration read inside the slot being drained.
SentInsideSlot ==
    \A i \in 1..Len(sent) :
       /\ SentBytes(sent[i]) \subseteq SlotBytes(drain_tail)
       /\ SentBytes(sent[i]) \subseteq 0..(num_frames * FRAME_SIZE - 1)

\* C24 (as claimed): the K segments sent for the frame at tail were read
\* from consecutive, pairwise disjoint byte ranges inside the frame's ring
\* slot: each segment starts where the one before ended, no byte is sent in
\* two segments, and no byte outside the slot or the buffer is sent.
C24_SegmentRanges ==
    pc = "adv_load" =>
        /\ Len(sent) = WULPUS_NUMBER_OF_XFERS
        /\ SentInsideSlot
        /\ \A i \in 1..(Len(sent) - 1) :
              sent[i].data + sent[i].length = sent[i + 1].data
        /\ \A i, j \in 1..Len(sent) :
              i # j => SentBytes(sent[i]) \cap SentBytes(sent[j]) = {}

\* C24 failing input: the frame at slot 1 has been sent; the bytes at
\* offsets 201 and 202 of the slot went out in the first and in the second
\* segment.
C24_FailingInput ==
    /\ pc = "adv_load"
    /\ drain_tail = 1
    /\ Len(sent) = WULPUS_NUMBER_OF_XFERS
    /\ SentBytes(sent[1]) \cap SentBytes(sent[2]) =
          {FRAME_SIZE + WULPUS_BYTES_PER_XFER, FRAME_SIZE + WULPUS_BYTES_PER_XFER + 1}

\* ------------------------------------------------- packets to the companion
\* C25: every packet handed to the companion device, a command by the
\* reconfiguration handler or the restart packet by the disconnect handler,
\* went out with the timers disabled and the reception aborted; when the
\* handler has returned both are still stopped, and after the
\* reconfiguration handler head and tail are 0.
C25_NoPacketWhileRunning ==
    /\ \A i \in 1..Len(cfg_log) : ~cfg_log[i].tim /\ ~cfg_log[i].spi
    /\ cfg_log # <<>> =>
          /\ link_evt.kind \in {"data", "disconnected"}
          /\ ~tim_enabled
          /\ ~spi_armed
          /\ link_evt.kind = "data" => rx_buffer_head = 0 /\ rx_buffer_tail = 0

\* C25 witness: a command that arrived during a capture (timers running,
\* two block transfers counted, one frame queued) was forwarded after the
\* stop.
C25_Witness ==
    /\ link_evt.kind = "data"
    /\ link_evt.tim
    /\ link_evt.cnt = 2
    /\ link_evt.head = 1
    /\ Len(cfg_log) = 1
    /\ cfg_log[1].pkt = link_evt.arg
    /\ ~cfg_log[1].tim
    /\ ~cfg_log[1].spi

\* ------------------------------------------------------- callback registries
\* if (num >= MAX) return NRF_ERROR_CONN_COUNT; handlers[num++] = handler;
\* a registry is the sequence handlers[0..num-1].
wp_gpio_add_data_handler(handlers, handler) ==
    IF Len(handlers) >= WULPUS_GPIO_MAX_DATA_HANDLERS
    THEN [handlers |-> handlers, ret |-> NRF_ERROR_CONN_COUNT]
    ELSE [handlers |-> Append(handlers, handler), ret |-> NRF_SUCCESS]

\* The end-handler registry is checked against WULPUS_BLE_MAX_CONN_HANDLERS.
wp_ppi_add_end_handler(handlers, handler) ==
    IF Len(handlers) >= WULPUS_BLE_MAX_CONN_HANDLERS
    THEN [handlers |-> handlers, ret |-> NRF_ERROR_CONN_COUNT]
    ELSE [handlers |-> Append(handlers, handler), ret |-> NRF_SUCCESS]

wp_ble_add_data_handler(handlers, handler) ==
    IF Len(handlers) >= WULPUS_BLE_MAX_DATA_HANDLERS
    THEN [handlers |-> handlers, ret |-> NRF_ERROR_CONN_COUNT]
    ELSE [handlers |-> Append(handlers, handler), ret |-> NRF_SUCCESS]

\* Fault-injected variant for C26: the connection registry checked with >
\* instead of >=.
wp_ble_add_conn_handler_over(handlers, handler) ==
    IF Len(handlers) > WULPUS_BLE_MAX_CONN_HANDLERS
    THEN [handlers |-> handlers, ret |-> NRF_ERROR_CONN_COUNT]
    ELSE [handlers |-> Append(handlers, handler), ret |-> NRF_SUCCESS]

wp_ble_add_conn_handler(handlers, handler) ==
    IF Len(handlers) >= WULPUS_BLE_MAX_CONN_HANDLERS
    THEN [handlers |-> handlers, ret |-> NRF_ERROR_CONN_COUNT]
    ELSE [handlers |-> Append(handlers, handler), ret |-> NRF_SUCCESS]

\* for (size_t i = 0; i < num; i++) handlers[i](...): the callbacks called,
\* in the order of the calls.
RECURSIVE CallHandlers(_, _, _)
CallHandlers(handlers, i, called) ==
    IF i < Len(handlers)
    THEN CallHandlers(handlers, i + 1, Append(called, handlers[i + 1]))
    ELSE called

Registered ==
    Len(wp_gpio_data_handlers) + Len(wp_ppi_end_handlers)
        + Len(wp_ble_data_handlers) + Len(wp_ble_conn_handlers)

AddOp(r, handler, ret) ==
    [op |-> "add", reg |-> r, handler |-> handler, ret |-> ret, calls |-> <<>>]

EventOp(r, called) ==
    [op |-> "event", reg |-> r, handler |-> "none", ret |-> "none",
     calls |-> called]

rest_vars == <<num_frames, budget, hw_vars, main_vars, obs_vars>>

GpioAddDataHandler ==
    /\ Registered < MaxRegistered
    /\ \E h \in Callbacks :
          LET out == wp_gpio_add_data_handler(wp_gpio_data_handlers, h)
          IN  /\ wp_gpio_data_handlers' = out.handlers
              /\ reg_op' = AddOp("gpio_data", h, out.ret)
    /\ UNCHANGED <<wp_ppi_end_handlers, wp_ble_data_handlers,
                   wp_ble_conn_handlers, rest_vars>>

PpiAddEndHandler ==
    /\ Registered < MaxRegistered
    /\ \E h \in Callbacks :
          LET out == wp_ppi_add_end_handler(wp_ppi_end_handlers, h)
          IN  /\ wp_ppi_end_handlers' = out.handlers
              /\ reg_op' = AddOp("ppi_end", h, out.ret)
    /\ UNCHANGED <<wp_gpio_data_handlers, wp_ble_data_handlers,
                   wp_ble_conn_handlers, rest_vars>>

BleAddDataHandler ==
    /\ Registered < MaxRegistered
    /\ \E h \in Callbacks :
          LET out == wp_ble_add_data_handler(wp_ble_data_handlers, h)
          IN  /\ wp_ble_data_handlers' = out.handlers
              /\ reg_op' = AddOp("ble_data", h, out.ret)
    /\ UNCHANGED <<wp_gpio_data_handlers, wp_ppi_end_handlers,
                   wp_ble_conn_handlers, rest_vars>>

BleAddConnHandler ==
    /\ Registered < MaxRegistered
    /\ \E h \in Callbacks :
          LET out == wp_ble_add_conn_handler(wp_ble_conn_handlers, h)
          IN  /\ wp_ble_conn_handlers' = out.handlers
              /\ reg_op' = AddOp("ble_conn", h, out.ret)
    /\ UNCHANGED <<wp_gpio_data_handlers, wp_ppi_end_handlers,
                   wp_ble_data_handlers, rest_vars>>

handler_vars ==
    <<wp_gpio_data_handlers, wp_ppi_end_handlers, wp_ble_data_handlers,
      wp_ble_conn_handlers>>

\* _wp_gpio_data_ready_handler
DataReadyEvent ==
    /\ reg_op' = EventOp("gpio_data", CallHandlers(wp_gpio_data_handlers, 0, <<>>))
    /\ UNCHANGED <<handler_vars, rest_vars>>

\* _wp_ppi_tim_counter_handler: the sequencer and the reception are stopped,
\* then the end handlers are called.
SequenceEndEvent ==
    /\ Install(wp_spi_stop_reception(wp_ppi_stop_transfer(State)))
    /\ reg_op' = EventOp("ppi_end", CallHandlers(wp_ppi_end_handlers, 0, <<>>))
    /\ UNCHANGED <<handler_vars, num_frames, budget, main_vars, obs_vars,
                   aborted, since_cmd>>

\* _wp_ble_nus_handler, BLE_NUS_EVT_RX_DATA
DataEvent ==
    /\ reg_op' = EventOp("ble_data", CallHandlers(wp_ble_data_handlers, 0, <<>>))
    /\ UNCHANGED <<handler_vars, rest_vars>>

\* _wp_ble_evt_handler, BLE_GAP_EVT_CONNECTED and BLE_GAP_EVT_DISCONNECTED:
\* the connection handle is set, then the connection handlers are called.
ConnEvent ==
    /\ \E h \in ConnHandles \cup {BLE_CONN_HANDLE_INVALID} :
          Install([State EXCEPT !.conn = h])
    /\ reg_op' = EventOp("ble_conn", CallHandlers(wp_ble_conn_handlers, 0, <<>>))
    /\ UNCHANGED <<handler_vars, num_frames, budget, main_vars, obs_vars,
                   aborted, since_cmd>>

\* The registries start empty (.bss), the rest of the firmware as booted.
InitRegistry ==
    /\ num_frames = WULPUS_NUM_BUFFERED_FRAMES
    /\ budget = [seqs |-> 0, busy |-> 0, late |-> 0]
    /\ wp_gpio_data_handlers = <<>>
    /\ wp_ppi_end_handlers = <<>>
    /\ wp_ble_data_handlers = <<>>
    /\ wp_ble_conn_handlers = <<>>
    /\ reg_op = NoOp
    /\ InitHw
    /\ InitMain
    /\ InitObs

NextRegistry ==
    \/ GpioAddDataHandler
    \/ PpiAddEndHandler
    \/ BleAddDataHandler
    \/ BleAddConnHandler
    \/ DataReadyEvent
    \/ SequenceEndEvent
    \/ DataEvent
    \/ ConnEvent

SpecRegistry == InitRegistry /\ [][NextRegistry]_vars

Handlers(r) ==
    CASE r = "gpio_data" -> wp_gpio_data_handlers
      [] r = "ppi_end" -> wp_ppi_end_handlers
      [] r = "ble_data" -> wp_ble_data_handlers
      [] r = "ble_conn" -> wp_ble_conn_handlers

\* The size of the registry's callback array.
Capacity(r) ==
    CASE r = "gpio_data" -> WULPUS_GPIO_MAX_DATA_HANDLERS
      [] r = "ppi_end" -> WULPUS_PPI_MAX_END_HANDLERS
      [] r = "ble_data" -> WULPUS_BLE_MAX_DATA_HANDLERS
      [] r = "ble_conn" -> WULPUS_BLE_MAX_CONN_HANDLERS

\* C26: no registry ever holds more callbacks than its array has places; a
\* registration into a registry that holds fewer appends the callback and
\* returns success; a registration into a full registry returns
\* NRF_ERROR_CONN_COUNT and changes no registry; and an event calls the
\* callbacks of its registry once each, in the order of their registration,
\* and changes no registry.
C26_RegistriesBounded ==
    /\ [](\A r \in Registries : Len(Handlers(r)) <= Capacity(r))
    /\ [][\A r \in Registries :
            /\ (reg_op'.op = "add" /\ reg_op'.reg = r) =>
                  /\ IF Len(Handlers(r)) >= Capacity(r)
                     THEN /\ reg_op'.ret = NRF_ERROR_CONN_COUNT
                          /\ Handlers(r)' = Handlers(r)
                     ELSE /\ reg_op'.ret = NRF_SUCCESS
                          /\ Handlers(r)' = Append(Handlers(r), reg_op'.handler)
                  /\ \A q \in Registries \ {r} : Handlers(q)' = Handlers(q)
            /\ (reg_op'.op = "event" /\ reg_op'.reg = r) =>
                  /\ reg_op'.calls = Handlers(r)
                  /\ handler_vars' = handler_vars]_vars

\* C26 witness: the connection registry is full, with both callbacks in it,
\* and one more registration has just been refused.
C26_Witness ==
    /\ Len(wp_ble_conn_handlers) = WULPUS_BLE_MAX_CONN_HANDLERS
    /\ wp_ble_conn_handlers[1] = "cb2"
    /\ wp_ble_conn_handlers[2] = "cb1"
    /\ reg_op = AddOp("ble_conn", "cb1", NRF_ERROR_CONN_COUNT)

====
